---- MODULE Spec2Model ----
(***************************************************************************)
(* Model of subnetting.py: assign_subnets, output_csv and the part of main *)
(* that loads the requests, calls assign_subnets, prints the networks and  *)
(* writes the csv file.                                                    *)
(*                                                                         *)
(* Strings are sequences of one-character strings, so that str(), the      *)
(* f-strings, IPv4Network(str) and the comparison of two str keys are      *)
(* computed character by character, as Python computes them.               *)
(***************************************************************************)
EXTENDS Integers, Sequences, FiniteSets, TLC

\* ------------------------------------------------------------------ bounds

\* The longest request list of a run.
MaxReqs == 3

\* The requested prefix lengths go up to the base prefix length + MaxDepth.
MaxDepth == 2

\* ---------------------------------------------------------------- constants

\* ipaddress.IPv4Network.max_prefixlen (IPV4LENGTH).
MaxPrefixLen == 32

\* ------------------------------------------------------------------ strings

DigitChars == <<"0", "1", "2", "3", "4", "5", "6", "7", "8", "9">>

DigitVal(c) == (CHOOSE d \in 1..10 : DigitChars[d] = c) - 1

\* str(n) of a natural number.
RECURSIVE StrOfNat(_)
StrOfNat(n) ==
    IF n < 10 THEN <<DigitChars[n + 1]>>
    ELSE StrOfNat(n \div 10) \o <<DigitChars[(n % 10) + 1]>>

\* int(s) of a string of decimal digits.
RECURSIVE IntOfStr(_)
IntOfStr(s) ==
    IF Len(s) = 0 THEN 0
    ELSE 10 * IntOfStr(SubSeq(s, 1, Len(s) - 1)) + DigitVal(s[Len(s)])

\* s < t for two str of decimal digits: Python compares code points, one
\* character after the other, and a proper prefix is the smaller one.
RECURSIVE StrLess(_, _)
StrLess(s, t) ==
    IF Len(t) = 0 THEN FALSE
    ELSE IF Len(s) = 0 THEN TRUE
    ELSE IF s[1] # t[1] THEN DigitVal(s[1]) < DigitVal(t[1])
    ELSE StrLess(Tail(s), Tail(t))

\* The position of the first c in s, 0 when there is none.
FindChar(s, c) ==
    IF \E k \in 1..Len(s) : s[k] = c
    THEN CHOOSE k \in 1..Len(s) : s[k] = c /\ \A j \in 1..(k - 1) : s[j] # c
    ELSE 0

\* s.split(c)
RECURSIVE Split(_, _)
Split(s, c) ==
    LET k == FindChar(s, c) IN
    IF k = 0 THEN <<s>>
    ELSE <<SubSeq(s, 1, k - 1)>> \o Split(SubSeq(s, k + 1, Len(s)), c)

RECURSIVE Pow2(_)
Pow2(n) == IF n = 0 THEN 1 ELSE 2 * Pow2(n - 1)

\* ------------------------------------------------------------- IPv4Network

\* An IPv4Network object: its network_address as an integer and its prefixlen.
Net(addr, prefixlen) == [addr |-> addr, prefixlen |-> prefixlen]

\* The four octets of a 32-bit address, most significant first.
Octets(addr) ==
    << addr \div 16777216, (addr \div 65536) % 256, (addr \div 256) % 256, addr % 256 >>

\* str(IPv4Address): the octets in decimal, joined by dots.
AddrStr(o) ==
    StrOfNat(o[1]) \o <<".">> \o StrOfNat(o[2]) \o <<".">> \o StrOfNat(o[3])
        \o <<".">> \o StrOfNat(o[4])

\* str(IPv4Network): "<network_address>/<prefixlen>".
NetStr(n) == AddrStr(Octets(n.addr)) \o <<"/">> \o StrOfNat(n.prefixlen)

\* ipaddress.IPv4Network(s) for the str of a network.
ParseNet(s) ==
    LET parts == Split(s, "/")
        o     == Split(parts[1], ".")
    IN  Net(IntOfStr(o[1]) * 16777216 + IntOfStr(o[2]) * 65536
              + IntOfStr(o[3]) * 256 + IntOfStr(o[4]),
            IntOfStr(parts[2]))

\* subnet.netmask, octet by octet: the first prefixlen bits are set.
NetmaskOctets(prefixlen) ==
    [k \in 1..4 |->
        LET ones == IF prefixlen >= 8 * k THEN 8
                    ELSE IF prefixlen <= 8 * (k - 1) THEN 0
                    ELSE prefixlen - 8 * (k - 1)
        IN  256 - Pow2(8 - ones)]

\* network.broadcast_address
Broadcast(n) == n.addr + Pow2(MaxPrefixLen - n.prefixlen) - 1

\* address in network
InNet(a, n) == n.addr <= a /\ a <= Broadcast(n)

\* IPv4Network.overlaps
Overlaps(a, b) ==
    \/ InNet(b.addr, a)
    \/ InNet(Broadcast(b), a)
    \/ InNet(a.addr, b)
    \/ InNet(Broadcast(a), b)

\* base.subnets(new_prefix=p) raises ValueError. A /32 network yields itself
\* before new_prefix is looked at.
SubnetsRaises(b, p) ==
    /\ b.prefixlen # MaxPrefixLen
    /\ (p < b.prefixlen \/ p > MaxPrefixLen)

\* list(base.subnets(new_prefix=p)), in ascending address order.
Subnets(b, p) ==
    IF b.prefixlen = MaxPrefixLen THEN <<b>>
    ELSE LET step == Pow2(MaxPrefixLen - p)
             n    == Pow2(p - b.prefixlen)
         IN  [k \in 1..n |-> Net(b.addr + (k - 1) * step, p)]

\* ------------------------------------------------------------------ records

\* A network definition is a dict: a function from its keys to their values.
Put(d, k, v) == (k :> v) @@ d

Keys(d) == DOMAIN d

\* get_cidr(network)
get_cidr(network) == network["cidr"]

\* The permutation sorted() applies to a list, as indices into it: ascending,
\* and two elements with equal keys keep their relative order (Python's sort
\* is stable). less[k][j] is key(k) < key(j), the keys' own comparison.
StableOrder(less) ==
    LET n == Len(less)
        Before(k, j) == less[k][j] \/ (~less[j][k] /\ k < j)
        Rank(j) == Cardinality({k \in 1..n : Before(k, j)}) + 1
    IN  [r \in 1..n |-> CHOOSE j \in 1..n : Rank(j) = r]

\* A sort that puts elements with equal keys in reverse input order.
UnstableOrder(less) ==
    LET n == Len(less)
        Before(k, j) == less[k][j] \/ (~less[j][k] /\ k > j)
        Rank(j) == Cardinality({k \in 1..n : Before(k, j)}) + 1
    IN  [r \in 1..n |-> CHOOSE j \in 1..n : Rank(j) = r]

\* key(k) < key(j) for the int keys of the requests.
IntLess(nets) ==
    [k \in 1..Len(nets) |-> [j \in 1..Len(nets) |->
        get_cidr(nets[k]) < get_cidr(nets[j])]]

\* key(k) < key(j) for the str keys of the assigned networks.
StrKeyLess(nets) ==
    [k \in 1..Len(nets) |-> [j \in 1..Len(nets) |->
        StrLess(get_cidr(nets[k]), get_cidr(nets[j]))]]

SortedByCidrUnstable(nets) == UnstableOrder(IntLess(nets))

\* The order of iteration of the loop of assign_subnets, as indices into
\* networks: sorted(networks, key=get_cidr), the keys being the requests' int.
SortedByCidr(nets) == StableOrder(IntLess(nets))

\* The order of the loop of main that prints: sorted(networks, key=get_cidr)
\* again, the keys now being the str that assign_subnets wrote to "cidr".
SortedForPrint(nets) == StableOrder(StrKeyLess(nets))

\* ------------------------------------------------------------------- inputs

\* --company-name and --location-code (3 characters).
company_name  == <<"A", "c", "m", "e">>
location_code == <<"L", "A", "X">>

\* The name of the request at position k of the JSON list.
NameAt(k) == <<"C", "o", "r", "e">> \o StrOfNat(k)

\* The vid of the request at position k, when it has one.
VidAt(k) == 10 * k

\* --base-cidr: a /8 (requested prefix lengths of one and of two digits), the
\* /30 of four addresses and a single-address /32.
Bases == { Net(167772160, 8), Net(167772160, 30), Net(167772160, 32) }

Min(a, b) == IF a < b THEN a ELSE b

\* The prefix lengths a request may ask for: the base's own, up to MaxDepth
\* more bits, and the two nearest values outside [base prefixlen, 32].
ReqPrefixes(b) ==
    {b.prefixlen - 1, MaxPrefixLen + 1}
        \cup (b.prefixlen .. Min(b.prefixlen + MaxDepth, MaxPrefixLen))

\* The request at position k: "vid" is optional.
Request(k, p, hasVid) ==
    LET r == [name |-> NameAt(k), cidr |-> p]
    IN  IF hasVid THEN Put(r, "vid", VidAt(k)) ELSE r

\* The request lists json.load may return for the base b.
RequestLists(b) ==
    UNION { { [k \in 1..n |-> Request(k, ps[k], k \in vs)] :
                ps \in [1..n -> ReqPrefixes(b)], vs \in SUBSET (1..n) } :
            n \in 1..MaxReqs }

\* -------------------------------------------------------------------- state

VARIABLES
    base_cidr,      \* args.base_cidr, parsed
    json_file,      \* the content of the JSON file: the request list
    output_path,    \* TRUE iff -o/--output-csv is given
    networks,       \* the list of dicts, changed in place by assign_subnets
    used_networks,  \* assign_subnets: the str of the subnets committed
    order,          \* assign_subnets: the sorted list the loop iterates over
    i,              \* assign_subnets: the position of the loop in order
    pc,             \* where the run is
    printed,        \* the lines printed
    csv_file,       \* the csv file: header, rows written, closed by an error
    run,            \* 1 for the first run, 2 for the second from equal inputs
    first           \* what the first run left, once the second has started

vars == << base_cidr, json_file, output_path, networks, used_networks, order, i,
           pc, printed, csv_file, run, first >>

NoFile == [header |-> {}, rows |-> <<>>, written |-> FALSE]

Init ==
    /\ base_cidr \in Bases
    /\ json_file \in RequestLists(base_cidr)
    /\ output_path \in BOOLEAN
    /\ networks = <<>>
    /\ used_networks = <<>>
    /\ order = <<>>
    /\ i = 0
    /\ pc = "main"
    /\ printed = <<>>
    /\ csv_file = NoFile
    /\ run = 1
    /\ first = [pc |-> "none"]

\* ----------------------------------------------------------- assign_subnets

\* main: networks = json.load(loaded_file)
LoadJson ==
    /\ pc = "main"
    /\ networks' = json_file
    /\ pc' = "call"
    /\ UNCHANGED << base_cidr, json_file, output_path, used_networks, order, i,
                    printed, csv_file, run, first >>

\* A list of used subnets that outlives the call.
InitialUsedKept == used_networks

\* used_networks = []
InitialUsed == << >>

\* assign_subnets up to the loop: the empty used_networks, and sorted()
\* building the list the loop iterates over.
EnterAssign ==
    /\ pc = "call"
    /\ used_networks' = InitialUsed
    /\ order' = SortedByCidr(networks)
    /\ i' = 1
    /\ pc' = "assign"
    /\ UNCHANGED << base_cidr, json_file, output_path, networks, printed,
                    csv_file, run, first >>

\* subnet is free: it overlaps none of the used subnets.
IsFree(subnet, used) ==
    ~ \E u \in 1..Len(used) : Overlaps(subnet, ParseNet(used[u]))

\* The position of the last free candidate.
LastFree(available, used) ==
    IF \E k \in 1..Len(available) : IsFree(available[k], used)
    THEN CHOOSE k \in 1..Len(available) :
            /\ IsFree(available[k], used)
            /\ \A j \in (k + 1)..Len(available) : ~IsFree(available[j], used)
    ELSE 0

\* The inner loop: the position of the first candidate that is free, at
\* which the loop breaks; 0 when the loop runs to its end without a break.
FirstFree(available, used) ==
    IF \E k \in 1..Len(available) : IsFree(available[k], used)
    THEN CHOOSE k \in 1..Len(available) :
            /\ IsFree(available[k], used)
            /\ \A j \in 1..(k - 1) : ~IsFree(available[j], used)
    ELSE 0

\* The value of the loop variable subnet after the inner loop: the candidate
\* at which it broke, or the last candidate when it did not break.
SubnetAfterLoop(available, used) ==
    LET k == FirstFree(available, used)
    IN  IF k = 0 THEN available[Len(available)] ELSE available[k]

\* The dict after the assignments that follow the inner loop.
Assigned(network, subnet) ==
    LET n1 == Put(network, "network", NetStr(subnet))
        n2 == Put(n1, "subnetmask", AddrStr(NetmaskOctets(subnet.prefixlen)))
        n3 == Put(n2, "cidr", StrOfNat(subnet.prefixlen))
        n4 == Put(n3, "company_description",
                  company_name \o <<" ">> \o network["name"])
    IN  Put(n4, "location_description",
            location_code \o <<" ">> \o network["name"])

\* One iteration of the outer loop, base_cidr.subnets() not raising.
AssignOne ==
    /\ pc = "assign"
    /\ i <= Len(order)
    /\ LET network     == networks[order[i]]
           subnet_size == network["cidr"]
       IN  /\ ~SubnetsRaises(base_cidr, subnet_size)
           /\ LET available_subnets == Subnets(base_cidr, subnet_size)
                  subnet == SubnetAfterLoop(available_subnets, used_networks)
              IN  /\ used_networks' =
                        IF FirstFree(available_subnets, used_networks) # 0
                        THEN Append(used_networks, NetStr(subnet))
                        ELSE used_networks
                  /\ networks' =
                        [networks EXCEPT ![order[i]] = Assigned(network, subnet)]
    /\ i' = i + 1
    /\ UNCHANGED << base_cidr, json_file, output_path, order, pc, printed,
                    csv_file, run, first >>

\* One iteration of the outer loop, base_cidr.subnets() raising ValueError:
\* nothing catches it, in assign_subnets or in main, and the run ends.
AssignRaise ==
    /\ pc = "assign"
    /\ i <= Len(order)
    /\ SubnetsRaises(base_cidr, networks[order[i]]["cidr"])
    /\ pc' = "raised"
    /\ UNCHANGED << base_cidr, json_file, output_path, networks, used_networks,
                    order, i, printed, csv_file, run, first >>

\* return networks
Return ==
    /\ pc = "assign"
    /\ i > Len(order)
    /\ pc' = "returned"
    /\ UNCHANGED << base_cidr, json_file, output_path, networks, used_networks,
                    order, i, printed, csv_file, run, first >>

\* --------------------------------------------------------------------- main

\* The line main prints for a network.
Line(network) ==
    network["network"] \o <<",", " ">> \o network["company_description"]
        \o <<",", " ">> \o network["location_description"]

\* The loop of main that prints the networks.
PrintNetworks ==
    /\ pc = "returned"
    /\ printed' = LET o == SortedForPrint(networks)
                  IN  [k \in 1..Len(o) |-> Line(networks[o[k]])]
    /\ pc' = "printed"
    /\ UNCHANGED << base_cidr, json_file, output_path, networks, used_networks,
                    order, i, csv_file, run, first >>

\* A cell of the csv file: the writer writes str(value).
Cell(k, v) == IF k = "vid" THEN StrOfNat(v) ELSE v

\* DictWriter._dict_to_list: a key the row lacks is written as the empty str.
Row(fieldnames, network) ==
    [k \in fieldnames |->
        IF k \in Keys(network) THEN Cell(k, network[k]) ELSE <<>>]

\* DictWriter raises ValueError for a dict with a key that is no field name.
HasExtraKey(fieldnames, network) == ~(Keys(network) \subseteq fieldnames)

\* The number of rows writerows writes before it ends or raises.
RowsWritten(fieldnames, network_list) ==
    IF \E k \in 1..Len(network_list) : HasExtraKey(fieldnames, network_list[k])
    THEN (CHOOSE k \in 1..Len(network_list) :
             /\ HasExtraKey(fieldnames, network_list[k])
             /\ \A j \in 1..(k - 1) : ~HasExtraKey(fieldnames, network_list[j])) - 1
    ELSE Len(network_list)

\* The file output_csv leaves.
CsvOf(network_list) ==
    LET keys == Keys(network_list[1])
    IN  [ header  |-> keys,
          rows    |-> [k \in 1..RowsWritten(keys, network_list) |->
                          Row(keys, network_list[k])],
          written |-> TRUE ]

\* output_csv(networks, args.output_csv), every row written.
OutputCsv ==
    /\ pc = "printed"
    /\ output_path
    /\ RowsWritten(Keys(networks[1]), networks) = Len(networks)
    /\ csv_file' = CsvOf(networks)
    /\ pc' = "done"
    /\ UNCHANGED << base_cidr, json_file, output_path, networks, used_networks,
                    order, i, printed, run, first >>

\* output_csv(networks, args.output_csv), writerows raising ValueError.
OutputCsvRaise ==
    /\ pc = "printed"
    /\ output_path
    /\ RowsWritten(Keys(networks[1]), networks) < Len(networks)
    /\ csv_file' = CsvOf(networks)
    /\ pc' = "csv_raised"
    /\ UNCHANGED << base_cidr, json_file, output_path, networks, used_networks,
                    order, i, printed, run, first >>

\* main ends without -o/--output-csv.
NoCsv ==
    /\ pc = "printed"
    /\ ~output_path
    /\ pc' = "done"
    /\ UNCHANGED << base_cidr, json_file, output_path, networks, used_networks,
                    order, i, printed, csv_file, run, first >>

Ended == pc \in {"done", "raised", "csv_raised"}

\* What a run leaves to its caller and on its outputs.
Outcome ==
    [pc |-> pc, networks |-> networks, printed |-> printed, csv_file |-> csv_file]

\* A second run from equal inputs: the same arguments and the same JSON file,
\* loaded afresh. used_networks is a local of assign_subnets, which sets it
\* when the call starts.
RunAgain ==
    /\ Ended
    /\ run = 1
    /\ first' = Outcome
    /\ run' = 2
    /\ pc' = "main"
    /\ networks' = <<>>
    /\ order' = <<>>
    /\ i' = 0
    /\ printed' = <<>>
    /\ csv_file' = NoFile
    /\ UNCHANGED << base_cidr, json_file, output_path, used_networks >>

Next ==
    \/ LoadJson
    \/ EnterAssign
    \/ AssignOne
    \/ AssignRaise
    \/ Return
    \/ PrintNetworks
    \/ OutputCsv
    \/ OutputCsvRaise
    \/ NoCsv
    \/ RunAgain

Spec == Init /\ [][Next]_vars

\* ------------------------------------------------------------------- claims

\* assign_subnets has been entered in this run.
InCall == pc \notin {"main", "call"}

\* assign_subnets has returned networks to main.
HasReturned == pc \in {"returned", "printed", "done", "csv_raised"}

\* The request at position k has a subnet attached.
IsAttached(k) == "network" \in Keys(networks[k])

\* The subnet attached to the request at position k.
AttachedNet(k) == ParseNet(networks[k]["network"])

\* The prefix length the request at position k asked for.
Requested(k) == json_file[k]["cidr"]

\* The address ranges of a and b share an address.
RangesIntersect(a, b) == a.addr <= Broadcast(b) /\ b.addr <= Broadcast(a)

ValidRequest(k) ==
    base_cidr.prefixlen <= Requested(k) /\ Requested(k) <= MaxPrefixLen

\* The number of addresses of a block with prefix length p.
BlockSize(p) == Pow2(MaxPrefixLen - p)

\* C1: in the allocation set assign_subnets returns, any two distinct
\* assigned subnets have address ranges that do not intersect.
C1_NoOverlap ==
    HasReturned =>
        \A a, b \in 1..Len(networks) :
            a # b => ~RangesIntersect(AttachedNet(a), AttachedNet(b))

\* Every sub-block of the requested size overlaps a committed subnet, for the
\* request the loop is at.
ExhaustedHere ==
    /\ pc = "assign"
    /\ i <= Len(order)
    /\ ~SubnetsRaises(base_cidr, networks[order[i]]["cidr"])
    /\ LET available == Subnets(base_cidr, networks[order[i]]["cidr"])
       IN  \A k \in 1..Len(available) :
              \E u \in 1..Len(used_networks) :
                 RangesIntersect(available[k], ParseNet(used_networks[u]))

\* C2: when every sub-block of the requested size overlaps a committed
\* subnet, the step taken from there is the run failing: no block is
\* attached to the request, and the loop does not go on.
C2_ExhaustionFails ==
    [][ExhaustedHere => (pc' = "raised" /\ networks' = networks)]_vars

\* C3: every attached subnet lies inside the base network and has exactly
\* the prefix length its request asked for, which is also the prefix length
\* written back to "cidr".
C3_InsideBaseOfRequestedSize ==
    InCall =>
        \A k \in 1..Len(networks) :
            IsAttached(k) =>
                /\ base_cidr.addr <= AttachedNet(k).addr
                /\ Broadcast(AttachedNet(k)) <= Broadcast(base_cidr)
                /\ AttachedNet(k).prefixlen = Requested(k)
                /\ IntOfStr(networks[k]["cidr"]) = Requested(k)

\* C4: the requests are processed in ascending order of requested prefix
\* length, requests of equal prefix length in their input order: the loop
\* iterates over such an arrangement of all the requests, and the requests
\* with a subnet attached are exactly those before the loop's position.
C4_AscendingStableOrder ==
    InCall =>
        /\ Len(order) = Len(json_file)
        /\ \A k \in 1..Len(json_file) : \E r \in 1..Len(order) : order[r] = k
        /\ \A a, b \in 1..Len(order) :
              a < b =>
                 \/ Requested(order[a]) < Requested(order[b])
                 \/ (Requested(order[a]) = Requested(order[b]) /\ order[a] < order[b])
        /\ \A r \in 1..Len(order) : IsAttached(order[r]) <=> r < i

\* Input prefix lengths [10, 9, 10]: the /9 is processed first, then the
\* first /10, then the second /10, and the call has returned.
C4_Witness ==
    /\ pc = "returned"
    /\ Len(json_file) = 3
    /\ Requested(1) = 10 /\ Requested(2) = 9 /\ Requested(3) = 10
    /\ order = <<2, 1, 3>>
    /\ AttachedNet(2).addr < AttachedNet(1).addr
    /\ AttachedNet(1).addr < AttachedNet(3).addr

\* C5: a second run from equal inputs ends as the first did, with the same
\* list of records (network, subnet mask, prefix length, labels, in the same
\* order), the same printed lines and the same csv file.
C5_Deterministic == (run = 2 /\ Ended) => Outcome = first

\* Both runs returned an allocation set for three requests.
C5_Witness ==
    /\ run = 2
    /\ pc = "done"
    /\ first.pc = "done"
    /\ Len(networks) = 3
    /\ \A k \in 1..3 : IsAttached(k)

\* C6: with a request whose prefix length is outside [base prefix length,
\* 32], assign_subnets returns no allocation set.
C6_InvalidRequestFails ==
    (\E k \in 1..Len(json_file) : ~ValidRequest(k)) => ~HasReturned

\* C7: once output_csv has run, the file has one row per record, in list
\* order, and each row holds every field of its record with the record's
\* value.
C7_CsvRoundTrip ==
    csv_file.written =>
        /\ Len(csv_file.rows) = Len(networks)
        /\ \A k \in 1..Len(csv_file.rows) :
              \A f \in Keys(networks[k]) :
                 /\ f \in DOMAIN csv_file.rows[k]
                 /\ csv_file.rows[k][f] = Cell(f, networks[k][f])

\* The prefix length of the network a printed line starts with.
PrefixOfLine(line) == ParseNet(Split(line, ",")[1]).prefixlen

\* C8: main prints one line per network, in ascending order of the
\* networks' numeric prefix length.
C8_PrintedByPrefixLength ==
    pc \in {"printed", "done", "csv_raised"} =>
        /\ Len(printed) = Len(networks)
        /\ \A a, b \in 1..Len(printed) :
              a < b => PrefixOfLine(printed[a]) <= PrefixOfLine(printed[b])

\* C9: the subnet attached to a request is the lowest-address sub-block of
\* the requested size that overlaps none of the subnets attached to the
\* requests processed before it, and it is committed to used_networks.
C9_LowestFreeBlock ==
    InCall =>
        \A r \in 1..Len(order) :
            r < i =>
                LET chosen == AttachedNet(order[r])
                    cands  == Subnets(base_cidr, Requested(order[r]))
                    Free(c) == \A q \in 1..(r - 1) :
                                  ~RangesIntersect(c, AttachedNet(order[q]))
                IN  /\ Free(chosen)
                    /\ \E k \in 1..Len(cands) :
                          /\ cands[k] = chosen
                          /\ \A j \in 1..(k - 1) : ~Free(cands[j])
                    /\ \E u \in 1..Len(used_networks) :
                          used_networks[u] = networks[order[r]]["network"]

\* The total size of the blocks of the first n requests in processing order.
RECURSIVE SizeBefore(_)
SizeBefore(n) ==
    IF n = 0 THEN 0 ELSE SizeBefore(n - 1) + BlockSize(Requested(order[n]))

RECURSIVE TotalRequested(_)
TotalRequested(n) ==
    IF n = 0 THEN 0 ELSE TotalRequested(n - 1) + BlockSize(Requested(n))

\* Every request is valid and the requested blocks fit into the base network.
Fits ==
    /\ \A k \in 1..Len(json_file) : ValidRequest(k)
    /\ TotalRequested(Len(json_file)) <= BlockSize(base_cidr.prefixlen)

\* C10: when every request is valid and the requested blocks fit into the
\* base network, no request runs out of candidates and the request processed
\* k-th gets the block that starts at the base address plus the total size of
\* the blocks of the k-1 requests processed before it.
C10_GapFreePacking ==
    (InCall /\ Fits) =>
        /\ pc # "raised"
        /\ Len(used_networks) = i - 1
        /\ \A r \in 1..Len(order) :
              r < i =>
                 /\ AttachedNet(order[r]).addr = base_cidr.addr + SizeBefore(r - 1)
                 /\ used_networks[r] = networks[order[r]]["network"]

\* A /10, a /9 and a /10 fill the /8 exactly, and the call has returned.
C10_Witness ==
    /\ pc = "returned"
    /\ Fits
    /\ Len(json_file) = 3
    /\ Requested(1) = 10 /\ Requested(2) = 9 /\ Requested(3) = 10
    /\ AttachedNet(3).addr = base_cidr.addr + BlockSize(9) + BlockSize(10)
    /\ Broadcast(AttachedNet(3)) = Broadcast(base_cidr)

====
